---- MODULE Spec2Model ----
(***************************************************************************)
(* The BigQuery remote-function batch endpoint of the customer-advisor     *)
(* service (bq-remote-function-agent/customer-advisor/app/fast_api_app.py).*)
(*                                                                         *)
(* process_bq_batch cuts request.calls into chunks of CHUNK_SIZE rows,     *)
(* runs one process_row task per row of the chunk under the module-level   *)
(* asyncio.Semaphore global_semaphore, gathers the chunk and aggregates    *)
(* the results into replies.  Several requests run on one event loop and   *)
(* share the semaphore.                                                    *)
(*                                                                         *)
(* Strings are sequences of tokens (a token is a character or a word), so  *)
(* that Python's substring test `in`, the f-strings and json.dumps are     *)
(* computed, not assumed.                                                  *)
(*                                                                         *)
(* MAX_CONCURRENT_ROWS and CHUNK_SIZE are both 10 in the source; the model *)
(* keeps them equal and scales both down to 2 so that TLC can enumerate    *)
(* every interleaving of two requests.                                     *)
(***************************************************************************)
EXTENDS Integers, Sequences, FiniteSets, TLC

MAX_CONCURRENT_ROWS == 2
CHUNK_SIZE == 2

\* The requests in flight on the event loop, and the number of rows they
\* submit between them (one batch of MaxRows rows has several chunks).
Requests == {1, 2}
MaxRows == 3

VARIABLES
  sem_value,   \* global_semaphore._value
  waiters,     \* global_semaphore._waiters: sequence of <<request, position>>
  task,        \* task[r][p]: the process_row task of row p of request r
  req,         \* req[r]: the process_bq_batch invocation r
  raised,      \* the exception e that the except clause of process_row caught
  classified,  \* what that except clause ended with
  services,    \* the InMemorySessionService objects created so far
  item,        \* item[i]: the locals of one process_row body
  pc,                  \* where process_messages of the pull function is
  processed_count,     \* its local processed_count
  empty_responses,     \* its local empty_responses
  response,            \* response.received_messages of the last pull
  at,                  \* the place of the for loop in response
  ack_ids,             \* its local ack_ids
  recent,              \* the sizes of the latest pull responses
  acknowledge_request, \* the ack_ids of the acknowledge call of this batch
  acknowledged,        \* how many deliveries the subscription has acknowledged
  returned,            \* what process_messages returned
  query_templates,     \* Datastore kind QueryTemplate: id -> entity
  categories,          \* Datastore kind Category: name -> entity
  store_result         \* what the last DatastoreClient call returned

vars == <<sem_value, waiters, task, req, raised, classified, services, item,
          pc, processed_count, empty_responses, response, at, ack_ids, recent,
          acknowledge_request, acknowledged, returned,
          query_templates, categories, store_result>>

batchVars == <<sem_value, waiters, task, req>>
classifyVars == <<raised, classified>>
sessionVars == <<services, item>>
pullVars == <<pc, processed_count, empty_responses, response, at, ack_ids,
              recent, acknowledge_request, acknowledged, returned>>
storeVars == <<query_templates, categories, store_result>>

(***************************************************************************)
(* Strings                                                                 *)
(***************************************************************************)

\* Python's `needle in hay` on strings: a contiguous occurrence.
Contains(needle, hay) ==
  \E k \in 0..(Len(hay) - Len(needle)) :
     SubSeq(hay, k + 1, k + Len(needle)) = needle

Str429 == <<"4", "2", "9">>
StrResourceExhausted == <<"RESOURCE_EXHAUSTED">>

\* json.dumps of a dict given as a sequence of <<key, string value>> pairs.
RECURSIVE json_members(_)
json_members(d) ==
  IF d = <<>> THEN <<>>
  ELSE <<"\"", d[1][1], "\"", ":", "\"">> \o d[1][2] \o <<"\"">>
       \o (IF Len(d) > 1 THEN <<",">> ELSE <<>>)
       \o json_members(Tail(d))

json_dumps(d) == <<"{">> \o json_members(d) \o <<"}">>

(***************************************************************************)
(* Exceptions                                                              *)
(***************************************************************************)

\* An exception object: its class name, the status code of a backend API
\* error (0 when it is not one), str(e), and e.exceptions of a group.
Exc(type, code, msg, subs) ==
  [type |-> type, code |-> code, msg |-> msg, exceptions |-> subs]

\* Backend quota error as Vertex AI reports it: "429 RESOURCE_EXHAUSTED ..."
QuotaError == Exc("ClientError", 429, <<"4", "2", "9", " ", "RESOURCE_EXHAUSTED">>, <<>>)
\* The spec's example of an ordinary error: ValueError("bad row").
BadRowError == Exc("ValueError", 0, <<"bad", " ", "row">>, <<>>)
\* An ordinary error whose message happens to hold the digits 429.
DigitsError == Exc("ValueError", 0, <<"bad", " ", "row", " ", "1", "4", "2", "9">>, <<>>)

\* The ExceptionGroup a failing ParallelAgent (asyncio.TaskGroup) raises.
ExceptionGroup(subs) ==
  Exc("ExceptionGroup", 0, <<"unhandled", " ", "errors">>, subs)

TransientError(err_msg) == Exc("TransientError", 0, err_msg, <<>>)
CancelledError == Exc("CancelledError", 0, <<>>, <<>>)

\* isinstance(e, Exception): CancelledError derives from BaseException only.
IsException(e) == e.type # "CancelledError"

\* Ground truth used by the properties: the error is a quota/rate-limit
\* condition of the backend (status 429), alone or inside a group.
IsQuotaError(e) ==
  \/ e.code = 429
  \/ \E k \in DOMAIN e.exceptions : e.exceptions[k].code = 429

\* Errors the agent run raises inside the try block of process_row in the
\* runs of the endpoint.
BackendErrors == {QuotaError, BadRowError, DigitsError}

\* An exception raised between the gate and the try block (lines 75-80).
SetupError == Exc("RuntimeError", 0, <<"setup", " ", "failed">>, <<>>)

(***************************************************************************)
(* process_row, the code that runs without suspension                      *)
(***************************************************************************)

\* What a coroutine step ends with: a returned string or a raised exception.
NoExc == Exc("", 0, <<>>, <<>>)
NoResult == [kind |-> "none", value |-> <<>>, exc |-> NoExc]
Returned(s) == [kind |-> "result", value |-> s, exc |-> NoExc]
Raised(e) == [kind |-> "exception", value |-> <<>>, exc |-> e]

\* Final session states the agent run can leave: the output_key of each
\* sub-agent that produced output is set.
NO_ISSUE == <<"NO_ISSUE">>
EmptyState == [k \in {} |-> <<>>]
SessionStates ==
  { EmptyState,
    [k \in {"security_results", "billing_results", "retention_results"} |->
        IF k = "billing_results" THEN <<"Action", " ", "Required">> ELSE NO_ISSUE] }

\* dict.get(key, default)
state_get(state, key, default) ==
  IF key \in DOMAIN state THEN state[key] ELSE default

\* Mutant of structured_result: state[key] is copied where present, with no
\* default for a key the session state lacks.
structured_result_no_default(state) ==
  LET pair(name, key) == IF key \in DOMAIN state THEN << <<name, state[key]>> >>
                         ELSE <<>>
  IN pair("security", "security_results") \o pair("billing", "billing_results")
     \o pair("retention", "retention_results")

\* lines 120-126
structured_result(state) ==
  << <<"security", state_get(state, "security_results", NO_ISSUE)>>,
     <<"billing", state_get(state, "billing_results", NO_ISSUE)>>,
     <<"retention", state_get(state, "retention_results", NO_ISSUE)>> >>

\* lines 130-133: str(e), or the first sub-error of an exception group
err_msg_of(e) ==
  IF e.exceptions # <<>>
  THEN <<e.type, " ", "sub-error:", " ">> \o e.exceptions[1].msg
  ELSE e.msg

\* line 136
is_quota_msg(err_msg) ==
  Contains(Str429, err_msg) \/ Contains(StrResourceExhausted, err_msg)

\* Mutant of except_clause: every error is raised as TransientError.
except_clause_always_transient(e) == Raised(TransientError(err_msg_of(e)))

\* lines 128-143: the except clause of process_row
except_clause(e) ==
  LET err_msg == err_msg_of(e) IN
  IF is_quota_msg(err_msg)
  THEN Raised(TransientError(err_msg))
  ELSE Returned(json_dumps(<< <<"error", err_msg>> >>))

\* lines 112-126: the normal end of the try block
try_success(state) == Returned(json_dumps(structured_result(state)))

(***************************************************************************)
(* asyncio.Semaphore (CPython 3.11+), as used by `async with`              *)
(***************************************************************************)

\* The future a waiting task sleeps on: "none", "pending", "result" (the
\* slot was handed to it by _wake_up_next) or "cancelled".
Fut(T, w) == T[w[1]][w[2]].fut

\* Semaphore.locked()
locked(v, ws, T) ==
  v = 0 \/ \E k \in 1..Len(ws) : Fut(T, ws[k]) # "cancelled"

\* Mutant of wake_up_next: the slot goes to the waiter that arrived last.
wake_up_next_newest(S, ws) ==
  LET idx == {k \in 1..Len(ws) : Fut(S.t, ws[k]) = "pending"} IN
  IF idx = {} THEN S
  ELSE LET k == CHOOSE k \in idx : \A j \in idx : k >= j
           w == ws[k]
       IN [v |-> S.v - 1,
           t |-> [S.t EXCEPT ![w[1]][w[2]].fut = "result",
                             ![w[1]][w[2]].acq = @ + 1]]

\* Semaphore._wake_up_next(): hand a slot to the first waiter not yet done.
\* S is [v |-> _value, t |-> the tasks], ws is _waiters.
wake_up_next(S, ws) ==
  LET idx == {k \in 1..Len(ws) : Fut(S.t, ws[k]) = "pending"} IN
  IF idx = {} THEN S
  ELSE LET k == CHOOSE k \in idx : \A j \in idx : k <= j
           w == ws[k]
       IN [v |-> S.v - 1,
           t |-> [S.t EXCEPT ![w[1]][w[2]].fut = "result",
                             ![w[1]][w[2]].acq = @ + 1]]

\* Semaphore.release()
release(S, ws) == wake_up_next([S EXCEPT !.v = @ + 1], ws)

\* deque.remove(fut)
remove(ws, w) == SelectSeq(ws, LAMBDA x : x # w)

(***************************************************************************)
(* Tasks                                                                   *)
(***************************************************************************)

NoRow == <<>>
NoOutcome == [kind |-> "none", state |-> EmptyState, exc |-> NoExc]

\* The row at a position of the batch has no task until its chunk is cut.
\* History kept with the task: acq and rel count the gate slots the task
\* took and gave back; outcome is what the agent run did (its final state or
\* the error it raised); seq is the rank of the task among the finished
\* tasks of the chunk being gathered; cancelled_in is where a CancelledError
\* reached it.
UnscheduledTask ==
  [st |-> "Unscheduled", row |-> NoRow, must_cancel |-> FALSE, fut |-> "none",
   res |-> NoResult, outcome |-> NoOutcome, acq |-> 0, rel |-> 0, seq |-> 0,
   cancelled_in |-> ""]

Terminal == {"Returned", "Raised", "Cancelled"}

\* Rank of the next task of request r to finish.
NextSeq(T, r) == 1 + Cardinality({q \in DOMAIN T[r] : T[r][q].seq > 0})

\* The state of a task that ended with res.
EndState(res) ==
  IF res.kind = "result" THEN "Returned"
  ELSE IF res.exc.type = "CancelledError" THEN "Cancelled"
  ELSE "Raised"

\* The task ends without a slot in hand: its exception is set.
End(T, r, p, res) ==
  [T EXCEPT ![r][p].st = EndState(res), ![r][p].res = res,
            ![r][p].must_cancel = FALSE, ![r][p].seq = NextSeq(T, r)]

\* Mutant of Finish: the gate is acquired without `async with`, and the
\* slot is never given back.
Finish_no_release(S, ws, r, p, res, outcome) ==
  [v |-> S.v, t |-> [End(S.t, r, p, res) EXCEPT ![r][p].outcome = outcome]]

\* Mutant of Finish: the slot is given back only when the body returned.
Finish_release_on_return(S, ws, r, p, res, outcome) ==
  IF res.kind = "result"
  THEN release([v |-> S.v,
                t |-> [End(S.t, r, p, res) EXCEPT ![r][p].outcome = outcome,
                                                  ![r][p].rel = @ + 1]], ws)
  ELSE [v |-> S.v, t |-> [End(S.t, r, p, res) EXCEPT ![r][p].outcome = outcome]]

\* The task ends inside `async with`: __aexit__ gives the slot back
\* (release) and the result or exception of the task is set.
Finish(S, ws, r, p, res, outcome) ==
  release([v |-> S.v,
           t |-> [End(S.t, r, p, res) EXCEPT ![r][p].outcome = outcome,
                                             ![r][p].rel = @ + 1]], ws)

\* Mutant of EnterBody: the try block starts right after the gate, so the
\* except clause handles what lines 75-80 raise.
EnterBody_try_from_gate(S, ws, r, p, setup_fails) ==
  IF setup_fails
  THEN Finish(S, ws, r, p, except_clause(SetupError),
              [kind |-> "setup", state |-> EmptyState, exc |-> SetupError])
  ELSE [S EXCEPT !.t[r][p].st = "Executing"]

\* lines 75-110 after the gate was passed: either the code before the try
\* raises, or the task suspends in runner.run_async.
EnterBody(S, ws, r, p, setup_fails) ==
  IF setup_fails
  THEN Finish(S, ws, r, p, Raised(SetupError),
              [kind |-> "setup", state |-> EmptyState, exc |-> SetupError])
  ELSE [S EXCEPT !.t[r][p].st = "Executing"]

Sem == [v |-> sem_value, t |-> task]

\* Mutant of TaskStart: the body runs without `async with global_semaphore`.
TaskStart_no_gate(r, p) ==
  /\ UNCHANGED <<classifyVars, sessionVars, pullVars, storeVars>>
  /\ req[r].status = "running"
  /\ p \in DOMAIN task[r]
  /\ task[r][p].st = "Pending"
  /\ UNCHANGED <<req, waiters>>
  /\ \E setup_fails \in BOOLEAN :
       LET S == EnterBody(Sem, waiters, r, p, setup_fails)
       IN sem_value' = S.v /\ task' = S.t

\* The first step of a process_row task: `async with global_semaphore`
\* (line 74).  A task cancelled before it ever ran never enters the body.
TaskStart(r, p) ==
  /\ UNCHANGED <<classifyVars, sessionVars, pullVars, storeVars>>
  /\ req[r].status = "running"
  /\ p \in DOMAIN task[r]
  /\ task[r][p].st = "Pending"
  /\ UNCHANGED req
  /\ IF task[r][p].must_cancel
     THEN /\ task' = [End(task, r, p, Raised(CancelledError))
                         EXCEPT ![r][p].cancelled_in = "Pending"]
          /\ UNCHANGED <<sem_value, waiters>>
     ELSE IF ~locked(sem_value, waiters, task)
     THEN \E setup_fails \in BOOLEAN :
            LET S == EnterBody([v |-> sem_value - 1,
                                t |-> [task EXCEPT ![r][p].acq = @ + 1]],
                               waiters, r, p, setup_fails)
            IN /\ sem_value' = S.v
               /\ task' = S.t
               /\ UNCHANGED waiters
     ELSE /\ waiters' = Append(waiters, <<r, p>>)
          /\ task' = [task EXCEPT ![r][p].st = "Gated", ![r][p].fut = "pending"]
          /\ UNCHANGED sem_value

\* A task suspended in Semaphore.acquire() runs again: its future was given
\* a slot or was cancelled.
TaskWake(r, p) ==
  /\ UNCHANGED <<classifyVars, sessionVars, pullVars, storeVars>>
  /\ p \in DOMAIN task[r]
  /\ task[r][p].st = "Gated"
  /\ task[r][p].fut \in {"result", "cancelled"}
  /\ UNCHANGED req
  /\ LET ws == remove(waiters, <<r, p>>)
         T0 == [task EXCEPT ![r][p].fut = "none"]
     IN /\ waiters' = ws
        /\ IF task[r][p].fut = "cancelled"
           THEN \* except CancelledError: fut.cancelled(), nothing to give back
                /\ task' = [End(T0, r, p, Raised(CancelledError))
                               EXCEPT ![r][p].cancelled_in = "Gated"]
                /\ UNCHANGED sem_value
           ELSE IF task[r][p].must_cancel
           THEN \* cancelled after the slot was handed over: give it back
                LET S == Finish([v |-> sem_value,
                                 t |-> [T0 EXCEPT ![r][p].cancelled_in = "Handoff"]],
                                ws, r, p, Raised(CancelledError), NoOutcome)
                IN sem_value' = S.v /\ task' = S.t
           ELSE \E setup_fails \in BOOLEAN :
                  LET S0 == [v |-> sem_value, t |-> T0]
                      S1 == IF S0.v > 0 THEN wake_up_next(S0, ws) ELSE S0
                      S == EnterBody(S1, ws, r, p, setup_fails)
                  IN sem_value' = S.v /\ task' = S.t

\* The agent run of an executing task ends normally with a final session
\* state (lines 105-126).
BackendReturns(r, p) ==
  /\ UNCHANGED <<classifyVars, sessionVars, pullVars, storeVars>>
  /\ p \in DOMAIN task[r]
  /\ task[r][p].st = "Executing"
  /\ ~task[r][p].must_cancel
  /\ UNCHANGED <<req, waiters>>
  /\ \E state \in SessionStates :
       LET S == Finish(Sem, waiters, r, p, try_success(state),
                       [kind |-> "state", state |-> state, exc |-> NoExc])
       IN sem_value' = S.v /\ task' = S.t

\* Something inside the try block raises an Exception (lines 82-143).
BackendRaises(r, p) ==
  /\ UNCHANGED <<classifyVars, sessionVars, pullVars, storeVars>>
  /\ p \in DOMAIN task[r]
  /\ task[r][p].st = "Executing"
  /\ ~task[r][p].must_cancel
  /\ UNCHANGED <<req, waiters>>
  /\ \E e \in BackendErrors :
       LET S == Finish(Sem, waiters, r, p, except_clause(e),
                       [kind |-> "error", state |-> EmptyState, exc |-> e])
       IN sem_value' = S.v /\ task' = S.t

\* CancelledError is thrown into an executing task: `except Exception`
\* does not catch it and `async with` releases the slot.
TaskCancelled(r, p) ==
  /\ UNCHANGED <<classifyVars, sessionVars, pullVars, storeVars>>
  /\ p \in DOMAIN task[r]
  /\ task[r][p].st = "Executing"
  /\ task[r][p].must_cancel
  /\ UNCHANGED <<req, waiters>>
  /\ LET S == Finish([v |-> sem_value,
                      t |-> [task EXCEPT ![r][p].cancelled_in = "Executing"]],
                     waiters, r, p, Raised(CancelledError), NoOutcome)
     IN sem_value' = S.v /\ task' = S.t

(***************************************************************************)
(* process_bq_batch                                                        *)
(***************************************************************************)

\* Rows submitted so far by the requests of S.
RECURSIVE RowsSubmitted(_)
RowsSubmitted(S) ==
  IF S = {} THEN 0
  ELSE LET r == CHOOSE r \in S : TRUE
       IN Len(req[r].calls) + RowsSubmitted(S \ {r})

Min(a, b) == IF a <= b THEN a ELSE b

\* Mutant of PySlice: the end index is taken as inclusive.
PySlice_inclusive(s, a, b) == SubSeq(s, a + 1, Min(b + 1, Len(s)))

\* Python's s[a:b] for 0 <= a <= b
PySlice(s, a, b) == SubSeq(s, a + 1, Min(b, Len(s)))

\* A batch of n rows; rows are opaque to the endpoint and pairwise distinct.
Batch(n) == [p \in 1..n |-> <<"row", p>>]

NoResponse == [status_code |-> 0, detail |-> "", replies |-> <<>>]
\* line 180
BQResponse(replies) == [status_code |-> 200, detail |-> "", replies |-> replies]
\* lines 165 and 178
HTTPException(status_code, detail) ==
  [status_code |-> status_code, detail |-> detail, replies |-> <<>>]
RetrySignal == HTTPException(500, "Quota Exceeded (429). Retryable.")
\* Mutant of InternalError: the catch-all answers with the retry detail.
InternalError_retryable == HTTPException(500, "Quota Exceeded (429). Retryable.")
InternalError == HTTPException(500, "Internal Batch Processing Error")

\* History kept with the request: waves lists the rows of each chunk handed
\* to gather; failed tells that the orchestration code itself raised;
\* reordered tells that in some gathered chunk a task finished before a task
\* of an earlier row.
IdleRequest ==
  [status |-> "idle", calls |-> <<>>, i |-> 0, replies |-> <<>>,
   response |-> NoResponse, cancel_requested |-> FALSE, waves |-> <<>>,
   failed |-> FALSE, reordered |-> FALSE]

\* Positions (1-based) of the rows of the chunk that starts at offset i.
ChunkPositions(calls, i) == (i + 1)..Min(i + CHUNK_SIZE, Len(calls))

\* lines 152-153 and the start of gather: one task per row of the chunk.
schedule_chunk(T, calls, i) ==
  LET batch_chunk == PySlice(calls, i, i + CHUNK_SIZE) IN
  [p \in DOMAIN T |->
     IF p - i \in DOMAIN batch_chunk
     THEN [T[p] EXCEPT !.st = "Pending", !.row = batch_chunk[p - i]]
     ELSE T[p]]

\* The wave as the model records it: the rows handed to gather.
wave_of(calls, i) == PySlice(calls, i, i + CHUNK_SIZE)

\* Mutant of gather: the results in the order the children finished.
gather_as_completed(T, calls, i) ==
  [k \in 1..Cardinality(ChunkPositions(calls, i)) |->
     T[CHOOSE p \in ChunkPositions(calls, i) : T[p].seq = k].res]

\* The value gather(..., return_exceptions=True) delivers: the result or
\* the exception of each child, in the order of the children.
gather(T, calls, i) ==
  [k \in 1..Cardinality(ChunkPositions(calls, i)) |-> T[i + k].res]

\* Mutant of aggregate: only the first result of the chunk is tested for
\* TransientError; a later one is reported like any other exception.
RECURSIVE aggregate_first_only(_, _)
aggregate_first_only(chunk_results, replies) ==
  IF chunk_results = <<>> THEN [raised |-> FALSE, replies |-> replies]
  ELSE LET res == Head(chunk_results) IN
       IF res.kind = "exception" /\ res.exc.type = "TransientError"
          /\ replies = <<>>
       THEN [raised |-> TRUE, replies |-> replies]
       ELSE aggregate_first_only(Tail(chunk_results),
              Append(replies, IF res.kind = "exception" THEN res.exc.msg
                              ELSE res.value))

\* Mutant of aggregate: a TransientError is logged and the loop goes on.
RECURSIVE aggregate_no_abort(_, _)
aggregate_no_abort(chunk_results, replies) ==
  IF chunk_results = <<>> THEN [raised |-> FALSE, replies |-> replies]
  ELSE LET res == Head(chunk_results) IN
       aggregate_no_abort(Tail(chunk_results),
              Append(replies, IF res.kind = "exception" THEN res.exc.msg
                              ELSE res.value))

\* Mutant of aggregate: an exception other than TransientError is logged
\* and gets no entry in replies.
RECURSIVE aggregate_skip_exceptions(_, _)
aggregate_skip_exceptions(chunk_results, replies) ==
  IF chunk_results = <<>> THEN [raised |-> FALSE, replies |-> replies]
  ELSE LET res == Head(chunk_results) IN
       IF res.kind = "exception" /\ res.exc.type = "TransientError"
       THEN [raised |-> TRUE, replies |-> replies]
       ELSE IF res.kind = "exception"
       THEN aggregate_skip_exceptions(Tail(chunk_results), replies)
       ELSE aggregate_skip_exceptions(Tail(chunk_results),
                                      Append(replies, res.value))

\* lines 160-171: the loop over chunk_results.
RECURSIVE aggregate(_, _)
aggregate(chunk_results, replies) ==
  IF chunk_results = <<>> THEN [raised |-> FALSE, replies |-> replies]
  ELSE LET res == Head(chunk_results) IN
       IF res.kind = "exception" /\ res.exc.type = "TransientError"
       THEN [raised |-> TRUE, replies |-> replies]
       ELSE IF res.kind = "exception" /\ IsException(res.exc)
       THEN aggregate(Tail(chunk_results),
                      Append(replies,
                             json_dumps(<< <<"error",
                                <<"Internal", " ", "Task", " ", "Error:", " ">>
                                \o res.exc.msg>> >>)))
       ELSE aggregate(Tail(chunk_results), Append(replies, res.value))

\* The loop header of line 151 after the chunk at offset i: the next
\* chunk is cut and scheduled, or the function returns (line 180).
next_chunk(R, T, replies) ==
  LET i2 == R.i + CHUNK_SIZE IN
  IF i2 < Len(R.calls)
  THEN [q |-> [R EXCEPT !.i = i2, !.replies = replies,
                        !.waves = Append(@, wave_of(R.calls, i2))],
        t |-> schedule_chunk(T, R.calls, i2)]
  ELSE [q |-> [R EXCEPT !.status = "done", !.replies = replies,
                        !.response = BQResponse(replies)],
        t |-> T]

\* The handler of request r, called with a batch of n rows, runs up to the
\* first `await gather` (lines 146-158), or to the end if the batch is empty.
handle(r, n) ==
  LET calls == Batch(n)
      R == [IdleRequest EXCEPT !.status = "running", !.calls = calls]
      T == [p \in 1..n |-> UnscheduledTask]
  IN IF n = 0
     THEN /\ req' = [req EXCEPT ![r] = [R EXCEPT !.status = "done",
                                                 !.response = BQResponse(<<>>)]]
          /\ task' = [task EXCEPT ![r] = T]
     ELSE /\ req' = [req EXCEPT ![r] = [R EXCEPT !.waves = <<wave_of(calls, 0)>>]]
          /\ task' = [task EXCEPT ![r] = schedule_chunk(T, calls, 0)]

\* A request arrives: the handler runs up to the first `await gather`.
Submit(r) ==
  /\ UNCHANGED <<classifyVars, sessionVars, pullVars, storeVars>>
  /\ req[r].status = "idle"
  /\ UNCHANGED <<sem_value, waiters>>
  /\ \E n \in 0..(MaxRows - RowsSubmitted(Requests)) : handle(r, n)

\* Some task of the chunk finished before a task of an earlier row.
Reordered(T, calls, i) ==
  \E p, q \in ChunkPositions(calls, i) : p < q /\ T[q].seq < T[p].seq

\* The gathering future of the chunk is dropped, and the order in which its
\* children finished with it.
forget_order(R, T) ==
  [q |-> [R EXCEPT !.reordered = @ \/ Reordered(T, R.calls, R.i)],
   t |-> [p \in DOMAIN T |-> [T[p] EXCEPT !.seq = 0]]]

\* Mutant of ChunkDone: the handler stops waiting for the chunk as soon as
\* one child raised TransientError.
ChunkDone_first_transient(r) ==
  \/ \A p \in ChunkPositions(req[r].calls, req[r].i) : task[r][p].st \in Terminal
  \/ \E p \in ChunkPositions(req[r].calls, req[r].i) :
       task[r][p].st = "Raised" /\ task[r][p].res.exc.type = "TransientError"

\* Mutant of ChunkDone: gather without return_exceptions, which hands over
\* at the first child that raised.
ChunkDone_first_exception(r) ==
  \/ \A p \in ChunkPositions(req[r].calls, req[r].i) : task[r][p].st \in Terminal
  \/ \E p \in ChunkPositions(req[r].calls, req[r].i) : task[r][p].st = "Raised"

\* Mutant of ChunkDone: gather hands over as soon as one child is done.
ChunkDone_first_completed(r) ==
  \E p \in ChunkPositions(req[r].calls, req[r].i) : task[r][p].st \in Terminal

\* `await asyncio.gather(...)` of line 158 resumes: every child is done.
ChunkDone(r) ==
  \A p \in ChunkPositions(req[r].calls, req[r].i) : task[r][p].st \in Terminal

\* gather delivers the chunk and the results loop runs (lines 158-171);
\* then the next chunk is scheduled or the response is returned.
AggregateChunk(r) ==
  /\ UNCHANGED <<classifyVars, sessionVars, pullVars, storeVars>>
  /\ req[r].status = "running"
  /\ ~req[r].cancel_requested
  /\ ChunkDone(r)
  /\ UNCHANGED <<sem_value, waiters>>
  /\ LET agg == aggregate(gather(task[r], req[r].calls, req[r].i), req[r].replies)
         F == forget_order(req[r], task[r])
     IN IF agg.raised
        THEN /\ req' = [req EXCEPT ![r] = [F.q EXCEPT !.status = "done",
                                                      !.replies = agg.replies,
                                                      !.response = RetrySignal]]
             /\ task' = [task EXCEPT ![r] = F.t]
        ELSE LET N == next_chunk(F.q, F.t, agg.replies)
             IN /\ req' = [req EXCEPT ![r] = N.q]
                /\ task' = [task EXCEPT ![r] = N.t]

\* Something in the try block of lines 157-171 raises an Exception other
\* than HTTPException (lines 175-178).
OrchestrationFailure(r) ==
  /\ UNCHANGED <<classifyVars, sessionVars, pullVars, storeVars>>
  /\ req[r].status = "running"
  /\ ~req[r].cancel_requested
  /\ ChunkDone(r)
  /\ LET F == forget_order(req[r], task[r])
     IN /\ req' = [req EXCEPT ![r] = [F.q EXCEPT !.status = "done",
                                                 !.response = InternalError,
                                                 !.failed = TRUE]]
        /\ task' = [task EXCEPT ![r] = F.t]
  /\ UNCHANGED <<sem_value, waiters>>

\* task.cancel() of one child of the gathering future.
cancel_task(t) ==
  IF t.st \in {"Pending", "Executing"} THEN [t EXCEPT !.must_cancel = TRUE]
  ELSE IF t.st = "Gated" /\ t.fut = "pending" THEN [t EXCEPT !.fut = "cancelled"]
  ELSE IF t.st = "Gated" /\ t.fut = "result" THEN [t EXCEPT !.must_cancel = TRUE]
  ELSE t

\* The runtime cancels the handler while it awaits gather: gather cancels
\* every child that is not done.
CancelRequest(r) ==
  /\ UNCHANGED <<classifyVars, sessionVars, pullVars, storeVars>>
  /\ req[r].status = "running"
  /\ ~req[r].cancel_requested
  /\ req' = [req EXCEPT ![r].cancel_requested = TRUE]
  /\ task' = [task EXCEPT ![r] = [p \in DOMAIN @ |-> cancel_task(@[p])]]
  /\ UNCHANGED <<sem_value, waiters>>

\* Every child is done: gather raises CancelledError into the handler, which
\* neither except clause catches; no response is produced.
FinishCancelled(r) ==
  /\ UNCHANGED <<classifyVars, sessionVars, pullVars, storeVars>>
  /\ req[r].status = "running"
  /\ req[r].cancel_requested
  /\ ChunkDone(r)
  /\ LET F == forget_order(req[r], task[r])
     IN /\ req' = [req EXCEPT ![r] = [F.q EXCEPT !.status = "cancelled"]]
        /\ task' = [task EXCEPT ![r] = F.t]
  /\ UNCHANGED <<sem_value, waiters>>

(***************************************************************************)
(* Specification                                                           *)
(***************************************************************************)

\* No except clause is being looked at.
ClassifyIdle == raised = NoExc /\ classified = NoResult

\* No process_row body is being looked at.
SessionIdle == services = <<>> /\ item = <<>>

\* process_messages of the pull function has not been invoked.
PullIdle ==
  /\ pc = "start"
  /\ processed_count = 0
  /\ empty_responses = 0
  /\ response = <<>>
  /\ at = 0
  /\ ack_ids = <<>>
  /\ recent = <<>>
  /\ acknowledge_request = <<>>
  /\ acknowledged = 0
  /\ returned = <<>>

\* The Datastore of the MCP studio holds nothing and no call was made.
StoreIdle ==
  /\ query_templates = <<>>
  /\ categories = <<>>
  /\ store_result = <<>>

\* Mutant of Init: the semaphore has fewer slots than a chunk has rows.
Init_fewer_slots_than_chunk ==
  /\ sem_value = CHUNK_SIZE - 1
  /\ waiters = <<>>
  /\ task = [r \in Requests |-> <<>>]
  /\ req = [r \in Requests |-> IdleRequest]
  /\ ClassifyIdle /\ SessionIdle /\ PullIdle /\ StoreIdle

\* Mutant of Init: the semaphore is created with one slot too many.
Init_extra_slot ==
  /\ sem_value = MAX_CONCURRENT_ROWS + 1
  /\ waiters = <<>>
  /\ task = [r \in Requests |-> <<>>]
  /\ req = [r \in Requests |-> IdleRequest]
  /\ ClassifyIdle /\ SessionIdle /\ PullIdle /\ StoreIdle

\* The module is loaded: the semaphore is full and no request is in flight.
Init ==
  /\ sem_value = MAX_CONCURRENT_ROWS
  /\ waiters = <<>>
  /\ task = [r \in Requests |-> <<>>]
  /\ req = [r \in Requests |-> IdleRequest]
  /\ ClassifyIdle /\ SessionIdle /\ PullIdle /\ StoreIdle

Positions == 1..MaxRows

Next ==
  \/ \E r \in Requests : Submit(r)
  \/ \E r \in Requests, p \in Positions : TaskStart(r, p)
  \/ \E r \in Requests, p \in Positions : TaskWake(r, p)
  \/ \E r \in Requests, p \in Positions : BackendReturns(r, p)
  \/ \E r \in Requests, p \in Positions : BackendRaises(r, p)
  \/ \E r \in Requests, p \in Positions : TaskCancelled(r, p)
  \/ \E r \in Requests : AggregateChunk(r)
  \/ \E r \in Requests : OrchestrationFailure(r)
  \/ \E r \in Requests : CancelRequest(r)
  \/ \E r \in Requests : FinishCancelled(r)

Spec == Init /\ [][Next]_vars

\* The endpoint before any request: the state Init gives the semaphore, the
\* tasks and the requests.
BatchIdle ==
  /\ sem_value = MAX_CONCURRENT_ROWS
  /\ waiters = <<>>
  /\ task = [r \in Requests |-> <<>>]
  /\ req = [r \in Requests |-> IdleRequest]

(***************************************************************************)
(* The endpoint with one request in flight at a time                       *)
(***************************************************************************)

\* The handler of request r is running: it was submitted and has neither
\* returned nor been cancelled.
RequestInFlight(r) == req[r].status = "running"

\* A request arrives while no other request is in flight.
SoloSubmit(r) ==
  /\ \A r2 \in Requests \ {r} : ~RequestInFlight(r2)
  /\ Submit(r)

\* The steps of the endpoint; a task that TaskStart suspended at the gate
\* would stay there, as no step here resumes it.
NextSolo ==
  \/ \E r \in Requests : SoloSubmit(r)
  \/ \E r \in Requests, p \in Positions : TaskStart(r, p)
  \/ \E r \in Requests, p \in Positions : BackendReturns(r, p)
  \/ \E r \in Requests, p \in Positions : BackendRaises(r, p)
  \/ \E r \in Requests, p \in Positions : TaskCancelled(r, p)
  \/ \E r \in Requests : AggregateChunk(r)
  \/ \E r \in Requests : OrchestrationFailure(r)
  \/ \E r \in Requests : CancelRequest(r)
  \/ \E r \in Requests : FinishCancelled(r)

SpecSolo == Init /\ [][NextSolo]_vars

(***************************************************************************)
(* The endpoint with a backend that does not answer                        *)
(***************************************************************************)

\* The requests whose backend invocations get no answer, and whose caller
\* keeps waiting for the response.
HungRequests == {1}

\* Mutant of run_async_ends: the agent run is wrapped in a timeout, so that
\* every agent run ends.
run_async_ends_by_timeout(r) == TRUE

\* lines 105-110: `async for _ in runner.run_async(...)` is left only when
\* the backend invocation returned or raised; nothing bounds the wait.
run_async_ends(r) == r \notin HungRequests

HangBackendReturns(r, p) == run_async_ends(r) /\ BackendReturns(r, p)
HangBackendRaises(r, p) == run_async_ends(r) /\ BackendRaises(r, p)
HangCancelRequest(r) == r \notin HungRequests /\ CancelRequest(r)

NextHang ==
  \/ \E r \in Requests : Submit(r)
  \/ \E r \in Requests, p \in Positions : TaskStart(r, p)
  \/ \E r \in Requests, p \in Positions : TaskWake(r, p)
  \/ \E r \in Requests, p \in Positions : HangBackendReturns(r, p)
  \/ \E r \in Requests, p \in Positions : HangBackendRaises(r, p)
  \/ \E r \in Requests, p \in Positions : TaskCancelled(r, p)
  \/ \E r \in Requests : AggregateChunk(r)
  \/ \E r \in Requests : OrchestrationFailure(r)
  \/ \E r \in Requests : HangCancelRequest(r)
  \/ \E r \in Requests : FinishCancelled(r)

SpecHang == Init /\ [][NextHang]_vars

(***************************************************************************)
(* The endpoint with a backend that always answers, on a fair event loop   *)
(***************************************************************************)

\* The rows the contending requests submit between them.
MaxFairRows == 5
FairPositions == 1..MaxFairRows

FairSubmit(r) ==
  /\ UNCHANGED <<classifyVars, sessionVars, pullVars, storeVars>>
  /\ req[r].status = "idle"
  /\ UNCHANGED <<sem_value, waiters>>
  /\ \E n \in 0..(MaxFairRows - RowsSubmitted(Requests)) : handle(r, n)

\* The steps of the item tasks, with a body that gets as far as the agent
\* run, a backend that answers with an empty session state and one that
\* fails with a quota error or an ordinary error.
FairStart(r, p) == TaskStart(r, p) /\ task'[r][p].st # "Raised"
FairWake(r, p) == TaskWake(r, p) /\ task'[r][p].st # "Raised"
FairReturns(r, p) == BackendReturns(r, p) /\ task'[r][p].outcome.state = EmptyState
FairRaises(r, p) ==
  BackendRaises(r, p) /\ task'[r][p].outcome.exc \in {QuotaError, BadRowError}

NextFair ==
  \/ \E r \in Requests : FairSubmit(r)
  \/ \E r \in Requests, p \in FairPositions : FairStart(r, p)
  \/ \E r \in Requests, p \in FairPositions : FairWake(r, p)
  \/ \E r \in Requests, p \in FairPositions : FairReturns(r, p)
  \/ \E r \in Requests, p \in FairPositions : FairRaises(r, p)
  \/ \E r \in Requests : AggregateChunk(r)

\* The event loop runs a callback whenever one is ready: a task that can
\* start or resume, a handler whose gather is done.
EventLoopStep ==
  \/ \E r \in Requests, p \in FairPositions : FairStart(r, p) \/ FairWake(r, p)
  \/ \E r \in Requests : AggregateChunk(r)

\* A backend invocation that is under way returns or raises.
BackendStep ==
  \E r \in Requests, p \in FairPositions : FairReturns(r, p) \/ FairRaises(r, p)

Fairness == WF_vars(EventLoopStep) /\ WF_vars(BackendStep)

SpecFair == Init /\ [][NextFair]_vars /\ Fairness

(***************************************************************************)
(* The except clause of process_row, applied to one exception              *)
(***************************************************************************)

\* The sub-agents that root_agent runs in parallel (agent.py, line 98).
SUB_AGENTS == 3

\* A backend quota error whose message names the status only.
ExhaustedError ==
  Exc("ResourceExhausted", 429, <<"RESOURCE_EXHAUSTED", " ", "quota">>, <<>>)

\* What one sub-agent can fail with.
SubErrors == {QuotaError, ExhaustedError, BadRowError, DigitsError}

\* What runner.run_async can raise into the try block: the error of a
\* single call, or the group of the errors of the sub-agents that failed,
\* in the order the task group collected them.
RaisedErrors ==
  SubErrors \cup
  { ExceptionGroup(subs) :
      subs \in UNION {[1..n -> SubErrors] : n \in 1..SUB_AGENTS} }

InitClassify ==
  /\ BatchIdle /\ SessionIdle /\ PullIdle /\ StoreIdle
  /\ raised \in RaisedErrors
  /\ classified = NoResult

\* lines 128-143 run on the exception that was caught.
ExceptClause ==
  /\ classified = NoResult
  /\ classified' = except_clause(raised)
  /\ UNCHANGED <<raised, batchVars, sessionVars, pullVars, storeVars>>

NextClassify == ExceptClause

SpecClassify == InitClassify /\ [][NextClassify]_vars

(***************************************************************************)
(* The body of process_row and its session (lines 75-126)                  *)
(***************************************************************************)

\* The process_row bodies looked at together.
MaxItems == 2

\* Values uuid.uuid4() can return; two calls may return the same one.
Uuids == {"u1", "u2"}

\* line 77 (adk_app.name, agent.py line 101) and line 76
APP_NAME == "app"
USER_ID == "bq-remote-user"

\* The state keys the three sub-agents write (output_key, agent.py).
OutputKeys == {"security_results", "billing_results", "retention_results"}

\* The text a sub-agent produces for a customer record.
AgentOutput(row, key) == <<key, ":", " ", "row", " ", ToString(row)>>

\* The session a service stores under <<app_name, user_id, session_id>>.
SessionKey(session_id) == <<APP_NAME, USER_ID, session_id>>

\* Mutant of InMemorySessionService: one service object, made by the first
\* item, is used by all of them.
InMemorySessionService_shared(S) ==
  IF S = <<>> THEN [heap |-> <<[k \in {} |-> EmptyState]>>, ref |-> 1]
  ELSE [heap |-> S, ref |-> 1]

\* line 80: InMemorySessionService() makes a new object that holds no
\* session.  S is the objects made so far; ref is the new one.
InMemorySessionService(S) ==
  [heap |-> Append(S, [k \in {} |-> EmptyState]), ref |-> Len(S) + 1]

\* lines 84-88: session_service.create_session(...); the session starts
\* with an empty state.
create_session(service, key) ==
  [k \in DOMAIN service \cup {key} |-> IF k = key THEN EmptyState ELSE service[k]]

\* The runner stores the output of a sub-agent under its output_key in the
\* state of the session it was given (lines 91-95, 105-110).
append_output(service, key, output_key, text) ==
  IF key \notin DOMAIN service THEN service
  ELSE [service EXCEPT ![key] =
          [k \in DOMAIN @ \cup {output_key} |->
             IF k = output_key THEN text ELSE @[k]]]

\* lines 113-118: get_session and `session.state if session else {}`
get_session_state(service, key) ==
  IF key \in DOMAIN service THEN service[key] ELSE EmptyState

\* The locals of a process_row body that has not passed the gate.
NewItem(row) ==
  [pc |-> "gate", row |-> row, session_id |-> "", session_service |-> 0,
   result |-> NoResult]

InitSession ==
  /\ BatchIdle /\ ClassifyIdle /\ PullIdle /\ StoreIdle
  /\ services = <<>>
  /\ \E n \in 1..MaxItems : item = [i \in 1..n |-> NewItem(i)]

\* lines 74-104: the gate is passed, the session id and the session service
\* are made, the session is created and the runner is started on it.
OpenSession(i) ==
  /\ i \in DOMAIN item
  /\ item[i].pc = "gate"
  /\ ~locked(sem_value, waiters, task)
  /\ sem_value' = sem_value - 1
  /\ \E session_id \in Uuids :
       LET new == InMemorySessionService(services)
       IN /\ services' = [new.heap EXCEPT ![new.ref] =
                             create_session(@, SessionKey(session_id))]
          /\ item' = [item EXCEPT ![i].pc = "running",
                                  ![i].session_id = session_id,
                                  ![i].session_service = new.ref]
  /\ UNCHANGED <<waiters, task, req, classifyVars, pullVars, storeVars>>

\* lines 105-110: one sub-agent of the running agent produces its output.
SubAgentOutput(i, output_key) ==
  /\ i \in DOMAIN item
  /\ item[i].pc = "running"
  /\ LET ref == item[i].session_service
         key == SessionKey(item[i].session_id)
     IN /\ output_key \notin DOMAIN get_session_state(services[ref], key)
        /\ services' = [services EXCEPT ![ref] =
                          append_output(@, key, output_key,
                                        AgentOutput(item[i].row, output_key))]
  /\ UNCHANGED <<item, batchVars, classifyVars, pullVars, storeVars>>

\* lines 112-126 and the end of `async with`: the agent run is over, the
\* state of the session is read, the result is returned and the slot is
\* given back.
ExtractResult(i) ==
  /\ i \in DOMAIN item
  /\ item[i].pc = "running"
  /\ LET state == get_session_state(services[item[i].session_service],
                                    SessionKey(item[i].session_id))
     IN item' = [item EXCEPT ![i].pc = "done", ![i].result = try_success(state)]
  /\ sem_value' = release([v |-> sem_value, t |-> task], waiters).v
  /\ UNCHANGED <<services, waiters, task, req, classifyVars, pullVars, storeVars>>

NextSession ==
  \/ \E i \in 1..MaxItems : OpenSession(i)
  \/ \E i \in 1..MaxItems, output_key \in OutputKeys : SubAgentOutput(i, output_key)
  \/ \E i \in 1..MaxItems : ExtractResult(i)

SpecSession == InitSession /\ [][NextSession]_vars

(***************************************************************************)
(* Vocabulary of the properties                                            *)
(***************************************************************************)

Tasks == UNION {{<<r, p>> : p \in DOMAIN task[r]} : r \in Requests}
TaskOf(w) == task[w[1]][w[2]]

\* The item was classified transient: its task raised TransientError.
FailedTransient(t) ==
  t.st = "Raised" /\ t.res.exc.type = "TransientError"
\* The item failed permanently: the except clause returned an error payload.
FailedPermanent(t) == t.st = "Returned" /\ t.outcome.kind = "error"
Succeeded(t) == t.st = "Returned" /\ t.outcome.kind = "state"

\* The task holds a gate slot: it took one and has not given it back.
HoldsSlot(t) == t.acq > t.rel
\* The task waits at the gate or runs.
InFlight(t) == t.st \in {"Pending", "Gated", "Executing"}

Responded(r) == req[r].status = "done"
Is200(r) == req[r].response.status_code = 200
NumCalls(r) == Len(req[r].calls)

\* ceil(n / c)
CeilDiv(n, c) == (n + c - 1) \div c

\* The reply the endpoint owes for a finished item, from what its own task
\* ended with.
ReplyOfTask(t) ==
  IF t.res.kind = "result" THEN t.res.value
  ELSE json_dumps(<< <<"error", <<"Internal", " ", "Task", " ", "Error:", " ">>
                                 \o t.res.exc.msg>> >>)

\* The model stays within the types of the program state.
TypeOK ==
  /\ sem_value \in 0..MAX_CONCURRENT_ROWS
  /\ \A k \in 1..Len(waiters) : waiters[k] \in Tasks /\ TaskOf(waiters[k]).st = "Gated"
  /\ \A w \in Tasks : (TaskOf(w).st = "Gated") <=> (\E k \in 1..Len(waiters) : waiters[k] = w)
  /\ \A r \in Requests : req[r].status \in {"idle", "running", "done", "cancelled"}

(***************************************************************************)
(* C1                                                                      *)
(***************************************************************************)

\* C1: a request that returned, whose orchestration did not fail and none
\* of whose items was classified transient, returned HTTP 200 with exactly
\* one reply per call, and reply p is the result of the task that ran
\* call p, whatever order the tasks finished in.
C1_RepliesInInputOrder ==
  \A r \in Requests :
    (/\ Responded(r)
     /\ ~req[r].failed
     /\ \A p \in DOMAIN task[r] : ~FailedTransient(task[r][p]))
    => /\ Is200(r)
       /\ Len(req[r].response.replies) = NumCalls(r)
       /\ \A p \in 1..NumCalls(r) :
            /\ task[r][p].row = req[r].calls[p]
            /\ req[r].response.replies[p] = ReplyOfTask(task[r][p])

\* A 200 response for three rows (two chunks) with different replies, in a
\* run where a task finished before the task of an earlier row.
C1_Witness ==
  \E r \in Requests :
    /\ Is200(r) /\ NumCalls(r) = 3 /\ req[r].reordered
    /\ req[r].response.replies[1] # req[r].response.replies[2]
    /\ Succeeded(task[r][1]) /\ FailedPermanent(task[r][2])

(***************************************************************************)
(* C2                                                                      *)
(***************************************************************************)

\* C2: when an item of a chunk the request processed was classified
\* transient, the request never returns a replies list, and once it returns
\* (its orchestration not having failed) what it returns is the retry
\* signal, wherever the transient item stands in its chunk and whatever the
\* other items of that chunk and of earlier chunks did.
C2_TransientGivesRetrySignal ==
  \A r \in Requests :
    (\E p \in DOMAIN task[r] : FailedTransient(task[r][p]))
    => /\ ~Is200(r)
       /\ req[r].response.replies = <<>>
       /\ (Responded(r) /\ ~req[r].failed) => req[r].response = RetrySignal

\* The retry signal for a batch whose last row, in the second chunk, was
\* transient after one row succeeded and one failed permanently.
C2_Witness ==
  \E r \in Requests :
    /\ req[r].response = RetrySignal /\ NumCalls(r) = 3
    /\ Succeeded(task[r][1]) /\ FailedPermanent(task[r][2])
    /\ FailedTransient(task[r][3])

(***************************************************************************)
(* C3                                                                      *)
(***************************************************************************)

\* The error the agent run of the item raised is one the except clause
\* takes for a quota error.
RaisedQuotaLike(t) ==
  t.outcome.kind = "error" /\ is_quota_msg(err_msg_of(t.outcome.exc))
RaisedOther(t) ==
  t.outcome.kind = "error" /\ ~is_quota_msg(err_msg_of(t.outcome.exc))

ErrorPayload(err_msg) == json_dumps(<< <<"error", err_msg>> >>)

\* C3: permanent errors never abort the batch.  A request that returned,
\* whose orchestration did not fail and none of whose agent runs raised a
\* quota-like error, returned one entry per call; the entry of an item that
\* raised a permanent error is the {"error": ...} payload of that error at
\* the item's position, and the entry of every other item is the reply that
\* its own outcome determines, at its own position.
C3_PermanentErrorsStayLocal ==
  \A r \in Requests :
    (/\ Responded(r)
     /\ ~req[r].failed
     /\ \A p \in DOMAIN task[r] : ~RaisedQuotaLike(task[r][p]))
    => /\ Is200(r)
       /\ Len(req[r].response.replies) = NumCalls(r)
       /\ \A p \in 1..NumCalls(r) :
            LET t == task[r][p]
                reply == req[r].response.replies[p]
            IN /\ RaisedOther(t) => reply = ErrorPayload(err_msg_of(t.outcome.exc))
               /\ t.outcome.kind = "state" =>
                     reply = json_dumps(structured_result(t.outcome.state))

\* Three replies, the middle one the error payload of "bad row", the other
\* two the structured results of their rows.
C3_Witness ==
  \E r \in Requests :
    /\ Is200(r) /\ NumCalls(r) = 3
    /\ task[r][2].outcome.exc = BadRowError
    /\ req[r].response.replies[2] = ErrorPayload(<<"bad", " ", "row">>)
    /\ Succeeded(task[r][1]) /\ Succeeded(task[r][3])
    /\ req[r].response.replies[1] # req[r].response.replies[3]

(***************************************************************************)
(* C4                                                                      *)
(***************************************************************************)

SlotHolders == {w \in Tasks : HoldsSlot(TaskOf(w))}

\* C4: over all requests in flight, the tasks that hold a slot of
\* global_semaphore are never more than MAX_CONCURRENT_ROWS; the slots held
\* and the free count of the semaphore add up to MAX_CONCURRENT_ROWS.
C4_GateBound ==
  /\ Cardinality(SlotHolders) <= MAX_CONCURRENT_ROWS
  /\ sem_value + Cardinality(SlotHolders) = MAX_CONCURRENT_ROWS
  /\ \A w \in Tasks : TaskOf(w).st = "Executing" => HoldsSlot(TaskOf(w))

\* The gate is full with tasks of two requests executing, and a third task
\* waits behind it.
C4_Witness ==
  /\ sem_value = 0
  /\ \E w1, w2 \in SlotHolders :
       /\ w1[1] # w2[1]
       /\ TaskOf(w1).st = "Executing" /\ TaskOf(w2).st = "Executing"
  /\ \E w \in Tasks : TaskOf(w).st = "Gated" /\ TaskOf(w).fut = "pending"

(***************************************************************************)
(* C5                                                                      *)
(***************************************************************************)

\* C5: a task takes at most one slot and gives back no slot it did not
\* take; a task that ended has given back the slot it took, whether it
\* returned, raised TransientError, raised before the try block or was
\* cancelled while it held the slot; a task cancelled before it ran or while
\* it waited at the gate took none and gave none back; and when no task is
\* in flight the semaphore is back at MAX_CONCURRENT_ROWS.
C5_SlotReleasedOnce ==
  /\ \A w \in Tasks :
       LET t == TaskOf(w) IN
       /\ t.acq \in {0, 1} /\ t.rel \in {0, 1} /\ t.rel <= t.acq
       /\ t.st \in Terminal => t.rel = t.acq
       /\ t.st \in {"Returned", "Raised"} => t.acq = 1
       /\ (t.st = "Cancelled" /\ t.cancelled_in \in {"Pending", "Gated"})
            => (t.acq = 0 /\ t.rel = 0)
       /\ (t.st = "Cancelled" /\ t.cancelled_in \in {"Handoff", "Executing"})
            => (t.acq = 1 /\ t.rel = 1)
  /\ (\A w \in Tasks : ~InFlight(TaskOf(w))) => sem_value = MAX_CONCURRENT_ROWS

\* All tasks have ended and the gate is free again, after one task was
\* cancelled at the gate, one was cancelled while executing, and one raised
\* TransientError.
C5_Witness ==
  /\ sem_value = MAX_CONCURRENT_ROWS
  /\ Tasks # {}
  /\ \A w \in Tasks : TaskOf(w).st \in Terminal
  /\ \E w \in Tasks : TaskOf(w).cancelled_in = "Gated"
  /\ \E w \in Tasks : TaskOf(w).cancelled_in = "Executing"
  /\ \E w \in Tasks : FailedTransient(TaskOf(w))

(***************************************************************************)
(* C6                                                                      *)
(***************************************************************************)

\* Offset of the chunk that holds position p.
ChunkOffset(p) == ((p - 1) \div CHUNK_SIZE) * CHUNK_SIZE

\* C6: when an item was classified transient, no row of a later chunk of
\* its request ever gets a task (so it is never scheduled, never waits at
\* the gate and never invokes the backend), and the request returns no
\* reply.
C6_NoChunkAfterTransient ==
  \A r \in Requests : \A p \in DOMAIN task[r] :
    FailedTransient(task[r][p])
    => /\ \A q \in DOMAIN task[r] :
            q > ChunkOffset(p) + CHUNK_SIZE
            => (task[r][q].st = "Unscheduled" /\ task[r][q].acq = 0)
       /\ req[r].i = ChunkOffset(p)
       /\ req[r].response.replies = <<>>

\* The request has returned the retry signal for a transient item of the
\* first chunk, and the row of the second chunk never got a task.
C6_Witness ==
  \E r \in Requests :
    /\ req[r].response = RetrySignal /\ NumCalls(r) = 3
    /\ FailedTransient(task[r][1])
    /\ Succeeded(task[r][2])
    /\ task[r][3].st = "Unscheduled"

(***************************************************************************)
(* C7                                                                      *)
(***************************************************************************)

\* C7: an item whose agent run raised an error is classified transient
\* exactly when that error is a quota/rate-limit condition of the backend:
\* no other error is classified transient and no quota error is classified
\* permanent.
C7_TransientIffQuota ==
  \A w \in Tasks :
    LET t == TaskOf(w) IN
    t.outcome.kind = "error"
    => (FailedTransient(t) <=> IsQuotaError(t.outcome.exc))

(***************************************************************************)
(* C8                                                                      *)
(***************************************************************************)

\* C8: a request ends with the retry signal only if an item of the chunk it
\* was processing was classified transient, and it does end with it when
\* one was and the orchestration code did not fail; when the orchestration
\* code fails the request ends with the internal error, which is not the
\* retry signal, and the internal error is returned for nothing else.
C8_OnlyQuotaGetsRetry ==
  \A r \in Requests :
    /\ req[r].response = RetrySignal
       => /\ ~req[r].failed
          /\ \E p \in ChunkPositions(req[r].calls, req[r].i) :
               FailedTransient(task[r][p])
    /\ (/\ Responded(r)
        /\ ~req[r].failed
        /\ \E p \in DOMAIN task[r] : FailedTransient(task[r][p]))
       => req[r].response = RetrySignal
    /\ req[r].failed
       => (req[r].response = InternalError /\ req[r].response # RetrySignal)
    /\ req[r].response = InternalError => req[r].failed

\* One request ended with the retry signal, the other with the internal
\* error although none of its items was transient.
C8_Witness ==
  \E r1, r2 \in Requests :
    /\ req[r1].response = RetrySignal
    /\ req[r2].response = InternalError /\ req[r2].failed
    /\ NumCalls(r2) > 0
    /\ \A p \in DOMAIN task[r2] : ~FailedTransient(task[r2][p])

(***************************************************************************)
(* C9                                                                      *)
(***************************************************************************)

\* The rows of wave k of a batch: positions (k-1)*C+1 .. min(k*C, N),
\* counted from 1.
WaveRows(calls, k) ==
  [j \in 1..(Min(k * CHUNK_SIZE, Len(calls)) - (k - 1) * CHUNK_SIZE) |->
     calls[(k - 1) * CHUNK_SIZE + j]]

\* C9 as stated: every request that returned (its orchestration not having
\* failed) issued ceil(N/C) waves, wave k being the rows of chunk k.
C9_AlwaysAllWaves ==
  \A r \in Requests :
    (Responded(r) /\ ~req[r].failed)
    => /\ Len(req[r].waves) = CeilDiv(NumCalls(r), CHUNK_SIZE)
       /\ \A k \in 1..Len(req[r].waves) :
            req[r].waves[k] = WaveRows(req[r].calls, k)

\* C9, amended: the waves a request issues are the chunks of its batch in
\* order, wave k being exactly the rows at positions (k-1)*C .. min(k*C,N)-1
\* (from 0) and the rows with a task being exactly the rows of the waves
\* issued; at most C tasks of the request are in flight; there are never
\* more than ceil(N/C) waves, there are exactly ceil(N/C) when the
\* request returns 200, and a request that returned after fewer waves
\* stopped at a wave with a transient item or at a failure of the
\* orchestration.
C9_WavesAreChunks ==
  \A r \in Requests :
    LET W == req[r].waves
        N == NumCalls(r)
    IN /\ Len(W) <= CeilDiv(N, CHUNK_SIZE)
       /\ \A k \in 1..Len(W) :
            /\ W[k] = WaveRows(req[r].calls, k)
            /\ Len(W[k]) \in 1..CHUNK_SIZE
       /\ \A p \in DOMAIN task[r] :
            /\ (task[r][p].st # "Unscheduled") <=> (p <= Len(W) * CHUNK_SIZE)
            /\ task[r][p].st # "Unscheduled" => task[r][p].row = req[r].calls[p]
       /\ Cardinality({p \in DOMAIN task[r] : InFlight(task[r][p])}) <= CHUNK_SIZE
       /\ Is200(r) => Len(W) = CeilDiv(N, CHUNK_SIZE)
       /\ (Responded(r) /\ Len(W) < CeilDiv(N, CHUNK_SIZE))
            => \/ req[r].failed
               \/ \E p \in ChunkPositions(req[r].calls, (Len(W) - 1) * CHUNK_SIZE) :
                    FailedTransient(task[r][p])

\* A batch of three rows returned 200 after two waves, of two rows and of
\* one row.
C9_Witness ==
  \E r \in Requests :
    /\ Is200(r) /\ NumCalls(r) = 3
    /\ Len(req[r].waves) = 2
    /\ Len(req[r].waves[1]) = 2 /\ Len(req[r].waves[2]) = 1

(***************************************************************************)
(* C10                                                                     *)
(***************************************************************************)

\* The state of a work item in the terms of the item state machine.  An
\* exception that leaves the task ends in the error payload of the item and
\* counts as a permanent failure.
ItemState(t) ==
  IF t.st \in {"Unscheduled", "Pending"} THEN "Pending"
  ELSE IF t.st \in {"Gated", "Executing", "Cancelled"} THEN t.st
  ELSE IF Succeeded(t) THEN "Succeeded"
  ELSE IF FailedTransient(t) THEN "FailedTransient"
  ELSE "FailedPermanent"

Outcomes == {"Succeeded", "FailedPermanent", "FailedTransient"}

\* One step of a task runs the coroutine to its next suspension: when the
\* gate is free the item passes the gate without waiting, and when the code
\* before the try block raises it fails without suspending in the backend.
ForwardMove(a, b) ==
  \/ a = b
  \/ a = "Pending" /\ b \in {"Gated", "Executing", "FailedPermanent"}
  \/ a = "Gated" /\ b \in {"Executing", "FailedPermanent"}
  \/ a = "Executing" /\ b \in Outcomes

CancelMove(a, b) ==
  a \in {"Pending", "Gated", "Executing"} /\ b = "Cancelled"

\* The slot discipline of an item in the state after a step.
SlotDiscipline(t0, t1) ==
  /\ (ItemState(t1) = "Executing" /\ ItemState(t0) # "Executing")
       => (t1.acq = t0.acq + 1 \/ (t0.st = "Gated" /\ t0.fut = "result"))
  /\ ItemState(t1) = "Executing" => (t1.acq = 1 /\ t1.rel = 0)
  /\ ItemState(t1) \in Outcomes \cup {"Cancelled"} => t1.rel = t1.acq
  /\ (ItemState(t0) = "Executing" /\ ItemState(t1) # "Executing")
       => (t1.rel = t0.rel + 1 /\ t1.rel = 1)

\* C10 as stated: every step moves every item along
\* Pending -> Gated -> Executing -> {Succeeded, FailedPermanent,
\* FailedTransient} and keeps the slot discipline.
C10_OnlyListedMoves ==
  [][\A w \in Tasks :
       /\ ForwardMove(ItemState(TaskOf(w)), ItemState(task'[w[1]][w[2]]))
       /\ SlotDiscipline(TaskOf(w), task'[w[1]][w[2]])]_vars

\* C10, amended: every step moves every item along the listed path or,
\* when its request is cancelled, from Pending, Gated or Executing into
\* Cancelled; an item enters Executing only with a slot it acquired, is in
\* Executing only while it holds exactly one slot, leaves Executing only
\* into Succeeded, FailedPermanent, FailedTransient or Cancelled with the
\* slot given back, and never leaves one of these four states.
C10_ItemStateMachine ==
  [][\A w \in Tasks :
       /\ \/ ForwardMove(ItemState(TaskOf(w)), ItemState(task'[w[1]][w[2]]))
          \/ CancelMove(ItemState(TaskOf(w)), ItemState(task'[w[1]][w[2]]))
       /\ SlotDiscipline(TaskOf(w), task'[w[1]][w[2]])]_vars

\* One item went through the gate to Succeeded while, of a cancelled
\* request, one item was cancelled while Gated and one while Executing; no
\* slot is held any more.
C10_Witness ==
  /\ \E w \in Tasks : Succeeded(TaskOf(w))
  /\ \E w \in Tasks : TaskOf(w).cancelled_in = "Gated" /\ TaskOf(w).acq = 0
  /\ \E w \in Tasks : TaskOf(w).cancelled_in = "Executing" /\ TaskOf(w).rel = 1
  /\ \A w \in Tasks : ~HoldsSlot(TaskOf(w))

(***************************************************************************)
(* C11                                                                     *)
(***************************************************************************)

\* C11: a request that completed holds exactly one of three responses: HTTP
\* 200 with a replies list as long as its calls list, the retry signal, or
\* the internal batch error; a request that has not completed (or was
\* cancelled) holds none.  No replies list shorter or longer than the calls
\* list is returned, whatever the items did and however they interleaved.
C11_ThreeOutcomes ==
  \A r \in Requests :
    /\ Responded(r)
       => \/ /\ Is200(r)
             /\ req[r].response = BQResponse(req[r].response.replies)
             /\ Len(req[r].response.replies) = NumCalls(r)
          \/ req[r].response = RetrySignal
          \/ req[r].response = InternalError
    /\ ~Responded(r) => req[r].response = NoResponse

\* A 200 response of three replies for a batch in which one item returned,
\* one failed permanently and one raised before the try block, next to a
\* request that ended without replies.
C11_Witness ==
  \E r \in Requests :
    /\ Is200(r) /\ NumCalls(r) = 3
    /\ Len(req[r].response.replies) = 3
    /\ \E p \in 1..3 : Succeeded(task[r][p])
    /\ \E p \in 1..3 : FailedPermanent(task[r][p])
    /\ \E p \in 1..3 : task[r][p].outcome.kind = "setup"

(***************************************************************************)
(* C13                                                                     *)
(***************************************************************************)

\* json.loads of an object of string members, as the caller decodes a reply:
\* the members from position k of text s on, or ok = FALSE where s is not
\* such an object.
RECURSIVE json_parse_members(_, _, _)
json_parse_members(s, k, acc) ==
  IF k + 5 > Len(s) THEN [ok |-> FALSE, members |-> acc]
  ELSE IF ~(s[k] = "\"" /\ s[k + 2] = "\"" /\ s[k + 3] = ":" /\ s[k + 4] = "\"")
  THEN [ok |-> FALSE, members |-> acc]
  ELSE LET closing == {j \in (k + 5)..Len(s) : s[j] = "\""} IN
       IF closing = {} THEN [ok |-> FALSE, members |-> acc]
       ELSE LET j == CHOOSE j \in closing : \A j2 \in closing : j <= j2
                m == Append(acc, <<s[k + 1], SubSeq(s, k + 5, j - 1)>>)
            IN IF j + 1 = Len(s) /\ s[j + 1] = "}" THEN [ok |-> TRUE, members |-> m]
               ELSE IF j + 1 < Len(s) /\ s[j + 1] = ","
               THEN json_parse_members(s, j + 2, m)
               ELSE [ok |-> FALSE, members |-> m]

json_loads(s) ==
  IF s = <<>> \/ s[1] # "{" THEN [ok |-> FALSE, members |-> <<>>]
  ELSE IF s = <<"{", "}">> THEN [ok |-> TRUE, members |-> <<>>]
  ELSE json_parse_members(s, 2, <<>>)

JsonKeys(d) == {d.members[k][1] : k \in 1..Len(d.members)}
JsonGet(d, key) ==
  LET k == CHOOSE k \in 1..Len(d.members) : d.members[k][1] = key
  IN d.members[k][2]

\* The object a reply decodes to is the structured result of session state
\* `state`: exactly the three keys, each the state's value or "NO_ISSUE".
IsStructuredReply(d, state) ==
  /\ Len(d.members) = 3
  /\ JsonKeys(d) = {"security", "billing", "retention"}
  /\ \A key \in JsonKeys(d) :
        JsonGet(d, key) =
          IF (key \o "_results") \in DOMAIN state
          THEN state[key \o "_results"] ELSE NO_ISSUE

\* C13: every reply of a 200 response is a non-empty string that decodes as
\* JSON to an object: either the object with exactly the keys security,
\* billing and retention, each holding the item's session state value or
\* "NO_ISSUE" where the state lacks it, or an object with an "error" key.
C13_RepliesAreJsonObjects ==
  \A r \in Requests :
    Is200(r) =>
      \A p \in 1..Len(req[r].response.replies) :
        LET reply == req[r].response.replies[p]
            d == json_loads(reply)
        IN /\ reply # <<>>
           /\ d.ok
           /\ \/ "error" \in JsonKeys(d)
              \/ /\ Succeeded(task[r][p])
                 /\ IsStructuredReply(d, task[r][p].outcome.state)

\* A 200 response holding the reply of an item whose session state was
\* empty (three defaults), the reply of an item whose state held all three
\* keys, and an error payload.
C13_Witness ==
  \E r \in Requests :
    /\ Is200(r) /\ Len(req[r].response.replies) = 3
    /\ \E p \in 1..3 : /\ Succeeded(task[r][p])
                       /\ task[r][p].outcome.state = EmptyState
                       /\ JsonGet(json_loads(req[r].response.replies[p]), "billing")
                            = NO_ISSUE
    /\ \E p \in 1..3 : /\ Succeeded(task[r][p])
                       /\ task[r][p].outcome.state # EmptyState
    /\ \E p \in 1..3 : "error" \in JsonKeys(json_loads(req[r].response.replies[p]))

(***************************************************************************)
(* C15                                                                     *)
(***************************************************************************)

\* The chunk (from 1) that holds position p.
ChunkOf(p) == CeilDiv(p, CHUNK_SIZE)

\* C15: the waves of one request are strictly sequential.  Whenever a task
\* of a later chunk exists, every task of every earlier chunk of the same
\* request has terminated; so the tasks of a request that are waiting or
\* executing all belong to one chunk and are at most CHUNK_SIZE.
C15_WavesSequential ==
  \A r \in Requests :
    /\ \A p, q \in DOMAIN task[r] :
          (ChunkOf(p) < ChunkOf(q) /\ task[r][q].st # "Unscheduled")
          => task[r][p].st \in Terminal
    /\ \A p, q \in DOMAIN task[r] :
          (InFlight(task[r][p]) /\ InFlight(task[r][q])) => ChunkOf(p) = ChunkOf(q)
    /\ Cardinality({p \in DOMAIN task[r] : InFlight(task[r][p])}) <= CHUNK_SIZE

\* The task of the second chunk is executing after the two tasks of the
\* first chunk ended, one by returning and one by raising.
C15_Witness ==
  \E r \in Requests :
    /\ NumCalls(r) = 3
    /\ task[r][3].st = "Executing"
    /\ \E p, q \in 1..2 : task[r][p].st = "Returned" /\ task[r][q].st = "Raised"

(***************************************************************************)
(* C19                                                                     *)
(***************************************************************************)

\* C19: the results of a chunk are inspected only after every task of the
\* chunk terminated.  When a request has returned, with 200, with the retry
\* signal or with the internal batch error, none of its tasks is waiting at
\* the gate, executing or holding a slot, and every slot its tasks took
\* was given back.
C19_NothingLeftBehind ==
  \A r \in Requests :
    Responded(r) =>
      \A p \in DOMAIN task[r] :
        /\ ~InFlight(task[r][p])
        /\ ~HoldsSlot(task[r][p])
        /\ task[r][p].fut # "pending"
        /\ \A k \in 1..Len(waiters) : waiters[k] # <<r, p>>

\* A request returned the retry signal: both tasks of its chunk had taken a
\* slot and have ended, one with the transient error and one with a reply,
\* while a task of the other request is still executing.
C19_Witness ==
  \E r, r2 \in Requests :
    /\ r # r2
    /\ Responded(r) /\ req[r].response = RetrySignal
    /\ NumCalls(r) = 2
    /\ FailedTransient(task[r][1]) /\ Succeeded(task[r][2])
    /\ \A p \in 1..2 : task[r][p].acq = 1 /\ task[r][p].rel = 1
    /\ \E p \in DOMAIN task[r2] : task[r2][p].st = "Executing"

(***************************************************************************)
(* C20                                                                     *)
(***************************************************************************)

\* C20: CHUNK_SIZE <= MAX_CONCURRENT_ROWS, and with a single request in
\* flight at a time no task ever waits at the gate: no task is queued at
\* the semaphore and every task that passed the gate took its slot at
\* once.  The gate limits concurrency only when requests overlap.
C20_SoloNeverWaits ==
  /\ CHUNK_SIZE <= MAX_CONCURRENT_ROWS
  /\ waiters = <<>>
  /\ \A w \in Tasks : TaskOf(w).st # "Gated" /\ TaskOf(w).fut = "none"

\* A request of two rows has returned 200, each of its tasks having taken
\* one slot, and the task of the request that came after it is executing.
C20_Witness ==
  \E r, r2 \in Requests :
    /\ r # r2
    /\ Is200(r) /\ NumCalls(r) = 2
    /\ \A p \in 1..2 : task[r][p].acq = 1 /\ task[r][p].rel = 1
    /\ RequestInFlight(r2)
    /\ \E p \in DOMAIN task[r2] : task[r2][p].st = "Executing"

(***************************************************************************)
(* C14                                                                     *)
(***************************************************************************)

\* The sub-error is a quota/rate-limit error as the claim defines it: its
\* text contains '429' or 'RESOURCE_EXHAUSTED'.
IsQuotaSubError(e) == is_quota_msg(e.msg)

ClassifiedTransient ==
  classified.kind = "exception" /\ classified.exc.type = "TransientError"

\* C14: when the processing of an item raised an exception group, the item
\* is classified transient if any one of the sub-errors of the group is a
\* quota/rate-limit error, whichever position that sub-error has.
C14_AnyQuotaSubErrorIsTransient ==
  (classified # NoResult /\ raised.exceptions # <<>>)
  => ( (\E k \in DOMAIN raised.exceptions : IsQuotaSubError(raised.exceptions[k]))
       => ClassifiedTransient )

(***************************************************************************)
(* C12                                                                     *)
(***************************************************************************)

\* The state of the session of item i, in the service item i holds.
OwnState(it, S) ==
  get_session_state(S[it.session_service], SessionKey(it.session_id))

\* What the state of the world holds of item i alone.
OwnSession ==
  \A i \in DOMAIN item :
    item[i].pc # "gate" =>
      /\ item[i].session_service \in DOMAIN services
      /\ \A j \in DOMAIN item :
            (j # i /\ item[j].pc # "gate")
            => item[j].session_service # item[i].session_service
      /\ DOMAIN services[item[i].session_service] = {SessionKey(item[i].session_id)}
      /\ \A k \in DOMAIN OwnState(item[i], services) :
            OwnState(item[i], services)[k] = AgentOutput(item[i].row, k)
      /\ item[i].pc = "done" =>
            item[i].result =
              Returned(json_dumps(structured_result(OwnState(item[i], services))))

\* A step is the step of one item: the locals, the result and the session
\* service of every other item are left as they were.
OwnStep ==
  \E i \in DOMAIN item :
    \A j \in DOMAIN item \ {i} :
      /\ item'[j] = item[j]
      /\ item[j].pc # "gate" =>
            services'[item[j].session_service] = services[item[j].session_service]

\* C12: no cross-item leakage.  Each item has a session service of its own
\* that holds its session only, whatever session id it drew; the session
\* holds only what the agent wrote for that item's row and the result is
\* computed from that state alone; every step of an item leaves the
\* locals, the session and the result of every other item unchanged, the
\* gate being all that the items share.
C12_NoCrossItemLeakage ==
  [][ OwnSession' /\ OwnStep /\ UNCHANGED <<waiters, task, req>> ]_vars

\* Item 1 is done with all three outputs of its own row in its result while
\* item 2, in a session of the same id, has written one output so far.
C12_Witness ==
  /\ DOMAIN item = 1..2
  /\ item[1].pc = "done" /\ item[2].pc = "running"
  /\ DOMAIN OwnState(item[1], services) = OutputKeys
  /\ DOMAIN OwnState(item[2], services) = {"billing_results"}
  /\ item[1].session_id = item[2].session_id

(***************************************************************************)
(* C16                                                                     *)
(***************************************************************************)

\* The item of row p of request r waits for a backend invocation that
\* never completes.
Hung(r, p) ==
  r \in HungRequests /\ p \in DOMAIN task[r] /\ task[r][p].st = "Executing"

\* MAX_CONCURRENT_ROWS such items hold slots.
SaturatedByHung ==
  Cardinality({w \in Tasks : Hung(w[1], w[2]) /\ HoldsSlot(TaskOf(w))})
    = MAX_CONCURRENT_ROWS

OnlyHungExecute == \A w \in Tasks : TaskOf(w).st = "Executing" => Hung(w[1], w[2])

HasItemInFlight(r) == \E p \in DOMAIN task[r] : InFlight(task[r][p])

WaitsAtGate(t) == t.st = "Gated" /\ t.fut = "pending"

\* Tasks wait at the gate only while some task holds a slot.
NoGateDeadlock ==
  (\E w \in Tasks : WaitsAtGate(TaskOf(w))) => \E w \in Tasks : HoldsSlot(TaskOf(w))

QueuePlace(w) ==
  IF \E k \in 1..Len(waiters) : waiters[k] = w
  THEN CHOOSE k \in 1..Len(waiters) : waiters[k] = w
  ELSE 0

\* Task w is given a slot in this step.
Acquires(w) == task'[w[1]][w[2]].acq > TaskOf(w).acq

\* A task that is given a slot overtakes nobody: every task that waits at
\* the gate when the slot is given arrived after it.
ServedInArrivalOrder ==
  \A w \in Tasks :
    Acquires(w) =>
      /\ WaitsAtGate(TaskOf(w)) \/ \A u \in Tasks : ~WaitsAtGate(TaskOf(u))
      /\ \A u \in Tasks \ {w} :
            WaitsAtGate(TaskOf(u)) => QueuePlace(w) < QueuePlace(u)

\* A task stops waiting at the gate only by being given a slot.
WaitEndsWithSlot ==
  \A w \in Tasks :
    (WaitsAtGate(TaskOf(w)) /\ ~WaitsAtGate(task'[w[1]][w[2]]))
    => (Acquires(w) /\ HoldsSlot(task'[w[1]][w[2]]))

NobodyWaits == \A w \in Tasks : ~WaitsAtGate(TaskOf(w))

ScheduledPositions(r) == 1..Min(req[r].i + CHUNK_SIZE, NumCalls(r))

\* The task went through a backend invocation of its own to its end.
InvokedBackend(t) == t.acq = 1 /\ t.rel = 1 /\ t.outcome.kind \in {"state", "error"}

\* C21: when a request is answered with the retry signal, the transient
\* item is in the chunk it stopped at; every item of that chunk and of the
\* chunks before it has ended, none of them waiting, executing or holding a
\* slot; the response carries none of their results; and a request that
\* submits the same batch again gets each of its results from a backend
\* invocation of its own, so that an item is invoked once per submission.
C21_RetryDiscardsCompletedWork ==
  \A r \in Requests :
    req[r].response = RetrySignal =>
      /\ \E p \in ChunkPositions(req[r].calls, req[r].i) : FailedTransient(task[r][p])
      /\ \A p \in 1..req[r].i : ~FailedTransient(task[r][p])
      /\ \A p \in ScheduledPositions(r) :
            task[r][p].st \in Terminal /\ ~HoldsSlot(task[r][p])
      /\ \A p \in DOMAIN task[r] \ ScheduledPositions(r) :
            task[r][p].st = "Unscheduled"
      /\ req[r].response.replies = <<>>
      /\ \A r2 \in Requests \ {r} :
            req[r2].calls = req[r].calls =>
              \A p \in DOMAIN task[r2] :
                (task[r2][p].res.kind = "result") => InvokedBackend(task[r2][p])

\* Request 1 got the retry signal for a batch of two rows whose first item
\* had succeeded; request 2 submitted the same batch and returned 200, its
\* first item having gone through the backend once more.
C21_Witness ==
  /\ req[1].response = RetrySignal /\ NumCalls(1) = 2
  /\ Succeeded(task[1][1]) /\ InvokedBackend(task[1][1])
  /\ FailedTransient(task[1][2])
  /\ req[2].calls = req[1].calls /\ Is200(2)
  /\ Succeeded(task[2][1]) /\ InvokedBackend(task[2][1])

(***************************************************************************)
(* C22                                                                     *)
(***************************************************************************)

\* The item's task raised before the try block of process_row.
Escaped(t) == t.outcome.kind = "setup"

InternalTaskError(e) ==
  json_dumps(<< <<"error", <<"Internal", " ", "Task", " ", "Error:", " ">> \o e.msg>> >>)

BATCH_SIZE == 2
MAX_MESSAGES == 4
MAX_EMPTY_RESPONSES == 2

\* message.data of the messages a subscription may deliver, as sequences of
\* bytes: a transaction with a state, an empty object, a JSON list, a cut-off
\* document, and bytes that are not UTF-8.
Payloads ==
  { <<"{", "\"", "state", "\"", ":", "\"", "paid", "\"", "}">>,
    <<"{", "}">>,
    <<"[", "]">>,
    <<"{", "\"", "state">>,
    <<"0xff">> }

\* bytes.decode("utf-8"): the text of the bytes, unless a byte is not UTF-8.
decode(data) ==
  IF \E i \in 1..Len(data) : data[i] = "0xff"
  THEN [ok |-> FALSE, text |-> <<>>]
  ELSE [ok |-> TRUE, text |-> data]

\* lines 69-74 on one message: "ok", or the exception that line 82 catches.
\* json.loads accepts a list, and then message_data.get does not exist.
process_message(data) ==
  LET decoded == decode(data)
  IN IF ~decoded.ok THEN "UnicodeDecodeError"
     ELSE IF decoded.text = <<"[", "]">> THEN "AttributeError"
     ELSE IF ~json_loads(decoded.text).ok THEN "JSONDecodeError"
     ELSE "ok"

\* What one pull may answer: at most BATCH_SIZE received messages, each with
\* the ack_id of this delivery (its place in the response) and its data.
Responses ==
  UNION { { [i \in 1..n |-> [ack_id |-> i, data |-> d[i]]] :
              d \in [1..n -> Payloads] } : n \in 0..BATCH_SIZE }

\* The sizes of the latest pull responses: as many as the loop needs to
\* stop, and the one before them.
Latest(sizes) ==
  IF Len(sizes) > MAX_EMPTY_RESPONSES + 1 THEN Tail(sizes) ELSE sizes

\* The f-string of line 102.
report(count) == <<"Processed ", ToString(count), " messages">>

\* lines 24-36: the environment is read and the counters start at 0.
StartPulling ==
  /\ pc = "start"
  /\ \E configured \in BOOLEAN :
       pc' = IF configured THEN "while" ELSE "raised"
  /\ UNCHANGED <<processed_count, empty_responses, response, at, ack_ids,
                 recent, acknowledge_request, acknowledged, returned>>
  /\ UNCHANGED <<batchVars, classifyVars, sessionVars, storeVars>>

\* line 38: the loop condition is false.
LimitReached ==
  /\ pc = "while"
  /\ ~(processed_count < MAX_MESSAGES)
  /\ pc' = "exit38"
  /\ UNCHANGED <<processed_count, empty_responses, response, at, ack_ids,
                 recent, acknowledge_request, acknowledged, returned>>
  /\ UNCHANGED <<batchVars, classifyVars, sessionVars, storeVars>>

\* lines 41-57: the pull answers with no message.
PullEmpty ==
  /\ pc = "while"
  /\ processed_count < MAX_MESSAGES
  /\ response' = <<>>
  /\ recent' = Latest(Append(recent, 0))
  /\ empty_responses' = empty_responses + 1
  /\ acknowledge_request' = <<>>
  /\ pc' = IF empty_responses' >= MAX_EMPTY_RESPONSES THEN "break56" ELSE "while"
  /\ UNCHANGED <<processed_count, at, ack_ids, acknowledged, returned>>
  /\ UNCHANGED <<batchVars, classifyVars, sessionVars, storeVars>>

\* Mutant of PullMessages: a non-empty pull leaves empty_responses alone.
PullMessages_no_reset(received_messages) ==
  /\ pc = "while"
  /\ processed_count < MAX_MESSAGES
  /\ received_messages # <<>>
  /\ response' = received_messages
  /\ recent' = Latest(Append(recent, Len(received_messages)))
  /\ ack_ids' = <<>>
  /\ acknowledge_request' = <<>>
  /\ at' = 1
  /\ pc' = "for"
  /\ UNCHANGED <<empty_responses, processed_count, acknowledged, returned>>
  /\ UNCHANGED <<batchVars, classifyVars, sessionVars, storeVars>>

\* lines 41-64: the pull answers with messages.
PullMessages(received_messages) ==
  /\ pc = "while"
  /\ processed_count < MAX_MESSAGES
  /\ received_messages # <<>>
  /\ response' = received_messages
  /\ recent' = Latest(Append(recent, Len(received_messages)))
  /\ empty_responses' = 0
  /\ ack_ids' = <<>>
  /\ acknowledge_request' = <<>>
  /\ at' = 1
  /\ pc' = "for"
  /\ UNCHANGED <<processed_count, acknowledged, returned>>
  /\ UNCHANGED <<batchVars, classifyVars, sessionVars, storeVars>>

\* lines 41, 96-98: the pull raises once its retries are used up.
PullRaises ==
  /\ pc = "while"
  /\ processed_count < MAX_MESSAGES
  /\ pc' = "break98"
  /\ UNCHANGED <<processed_count, empty_responses, response, at, ack_ids,
                 recent, acknowledge_request, acknowledged, returned>>
  /\ UNCHANGED <<batchVars, classifyVars, sessionVars, storeVars>>

\* Mutant of ProcessMessage: the ack_id is kept whatever the processing did.
ProcessMessage_ack_in_finally ==
  /\ pc = "for"
  /\ at <= Len(response)
  /\ ack_ids' = Append(ack_ids, response[at].ack_id)
  /\ processed_count' = IF process_message(response[at].data) = "ok"
                        THEN processed_count + 1 ELSE processed_count
  /\ at' = at + 1
  /\ UNCHANGED <<pc, empty_responses, response, recent, acknowledge_request,
                 acknowledged, returned>>
  /\ UNCHANGED <<batchVars, classifyVars, sessionVars, storeVars>>

\* lines 67-83: one turn of the for loop.
ProcessMessage ==
  /\ pc = "for"
  /\ at <= Len(response)
  /\ IF process_message(response[at].data) = "ok"
     THEN /\ ack_ids' = Append(ack_ids, response[at].ack_id)
          /\ processed_count' = processed_count + 1
     ELSE UNCHANGED <<ack_ids, processed_count>>
  /\ at' = at + 1
  /\ UNCHANGED <<pc, empty_responses, response, recent, acknowledge_request,
                 acknowledged, returned>>
  /\ UNCHANGED <<batchVars, classifyVars, sessionVars, storeVars>>

\* line 87: no message of the batch was processed, nothing is acknowledged.
NothingToAcknowledge ==
  /\ pc = "for"
  /\ at > Len(response)
  /\ ack_ids = <<>>
  /\ pc' = "while"
  /\ UNCHANGED <<processed_count, empty_responses, response, at, ack_ids,
                 recent, acknowledge_request, acknowledged, returned>>
  /\ UNCHANGED <<batchVars, classifyVars, sessionVars, storeVars>>

\* lines 87-94: the processed messages of the batch are acknowledged.
Acknowledge ==
  /\ pc = "for"
  /\ at > Len(response)
  /\ ack_ids # <<>>
  /\ acknowledge_request' = ack_ids
  /\ acknowledged' = acknowledged + Len(ack_ids)
  /\ pc' = "while"
  /\ UNCHANGED <<processed_count, empty_responses, response, at, ack_ids,
                 recent, returned>>
  /\ UNCHANGED <<batchVars, classifyVars, sessionVars, storeVars>>

\* lines 88, 96-98: the acknowledge call raises; the subscription took the
\* acknowledgement or it did not.
AcknowledgeRaises ==
  /\ pc = "for"
  /\ at > Len(response)
  /\ ack_ids # <<>>
  /\ acknowledge_request' = ack_ids
  /\ \E taken \in BOOLEAN :
       acknowledged' = IF taken THEN acknowledged + Len(ack_ids) ELSE acknowledged
  /\ pc' = "break98"
  /\ UNCHANGED <<processed_count, empty_responses, response, at, ack_ids,
                 recent, returned>>
  /\ UNCHANGED <<batchVars, classifyVars, sessionVars, storeVars>>

\* lines 100-102: the loop is over, the count is reported.
ReturnCount ==
  /\ pc \in {"exit38", "break56", "break98"}
  /\ returned' = report(processed_count)
  /\ pc' = "returned"
  /\ UNCHANGED <<processed_count, empty_responses, response, at, ack_ids,
                 recent, acknowledge_request, acknowledged>>
  /\ UNCHANGED <<batchVars, classifyVars, sessionVars, storeVars>>

InitPull ==
  /\ BatchIdle /\ ClassifyIdle /\ SessionIdle /\ StoreIdle
  /\ PullIdle

NextPull ==
  \/ StartPulling
  \/ LimitReached
  \/ PullEmpty
  \/ \E received_messages \in Responses : PullMessages(received_messages)
  \/ PullRaises
  \/ ProcessMessage
  \/ NothingToAcknowledge
  \/ Acknowledge
  \/ AcknowledgeRaises
  \/ ReturnCount

SpecPull == InitPull /\ [][NextPull]_vars

\* The function runs on: a step that can be taken is taken.
SpecPullRuns == SpecPull /\ WF_vars(NextPull)

(***************************************************************************)
(* C23                                                                     *)
(***************************************************************************)

\* C23: process_messages handles at most MAX_MESSAGES messages per
\* invocation: whatever the pulls answer, with at most BATCH_SIZE messages
\* each, processed_count never exceeds MAX_MESSAGES, on return included.
C23_AtMostMaxMessages == processed_count <= MAX_MESSAGES

(***************************************************************************)
(* C24                                                                     *)
(***************************************************************************)

\* The number of empty pull responses at the end of `sizes`.
RECURSIVE EmptyInARow(_)
EmptyInARow(sizes) ==
  IF sizes = <<>> \/ sizes[Len(sizes)] # 0 THEN 0
  ELSE 1 + EmptyInARow(SubSeq(sizes, 1, Len(sizes) - 1))

\* C24: the loop stops for lack of messages only after MAX_EMPTY_RESPONSES
\* empty pulls in a row: a non-empty pull sets the counter of empty pulls
\* back to 0, and while the loop runs the counter is the number of empty
\* pulls since the last non-empty one, so that one empty pull between two
\* non-empty pulls does not stop it.
C24_StopsAfterEmptyPullsInARow ==
  /\ pc = "break56" => EmptyInARow(recent) >= MAX_EMPTY_RESPONSES
  /\ pc = "for" => empty_responses = 0
  /\ pc \in {"while", "for"} =>
       /\ empty_responses = EmptyInARow(recent)
       /\ empty_responses < MAX_EMPTY_RESPONSES

\* One empty pull between two non-empty pulls, and the loop runs on.
C24_Witness ==
  /\ pc = "for"
  /\ Len(recent) = 3
  /\ recent[1] > 0 /\ recent[2] = 0 /\ recent[3] > 0

(***************************************************************************)
(* C25                                                                     *)
(***************************************************************************)

\* C25: process_messages terminates whatever the pulls answer, also when
\* every pulled message fails to process and is delivered again.
C25_AlwaysTerminates == <>(pc \in {"returned", "raised"})

(***************************************************************************)
(* C26                                                                     *)
(***************************************************************************)

\* The ack_ids of the messages among the first k of `messages` whose data
\* is the UTF-8 text of a JSON object, in the order of the response.
RECURSIVE ProcessedAckIds(_, _)
ProcessedAckIds(messages, k) ==
  IF k = 0 THEN <<>>
  ELSE LET decoded == decode(messages[k].data)
           is_object == decoded.ok /\ json_loads(decoded.text).ok
       IN IF is_object
          THEN Append(ProcessedAckIds(messages, k - 1), messages[k].ack_id)
          ELSE ProcessedAckIds(messages, k - 1)

\* What is collected and what is sent to acknowledge are the ack_ids of the
\* messages that were processed, all of them and no other.
AcksOnlyProcessed ==
  /\ pc = "for" => ack_ids = ProcessedAckIds(response, at - 1)
  /\ acknowledge_request # <<>> =>
       acknowledge_request = ProcessedAckIds(response, Len(response))

\* A turn of the for loop counts its message if and only if it was processed.
CountsOnlyProcessed ==
  (pc = "for" /\ at' = at + 1) =>
     processed_count' - processed_count =
       Len(ProcessedAckIds(response, at)) - Len(ProcessedAckIds(response, at - 1))

\* C26: an ack_id is sent to acknowledge only if its message was processed
\* without an exception; a message whose processing raised is neither
\* acknowledged nor counted, and the other messages of its batch are still
\* processed, counted and acknowledged.
C26_OnlyProcessedAreAcknowledged ==
  [][AcksOnlyProcessed' /\ CountsOnlyProcessed]_vars

\* A batch whose first message failed to process and whose second message
\* was acknowledged.
C26_Witness ==
  /\ Len(response) = 2
  /\ process_message(response[1].data) # "ok"
  /\ acknowledge_request = <<response[2].ack_id>>
  /\ acknowledged = 1

(***************************************************************************)
(* C27                                                                     *)
(***************************************************************************)

\* C27: the count process_messages reports is the number of messages the
\* subscription acknowledged during the invocation, on every way out of the
\* loop.
C27_ReportsAcknowledged ==
  pc = "returned" => returned = report(acknowledged)

(***************************************************************************)
(* The Datastore client of the BigQuery MCP studio                         *)
(* (bigquery-mcp/bigquery-mcp-studio/app/models.py)                        *)
(*                                                                         *)
(* DatastoreClient keeps the entities of the kinds QueryTemplate and       *)
(* Category.  Creating, updating and deleting a query template maintain    *)
(* query_count of the Category entities.  The calls run one after the      *)
(* other and each runs to its end, so every call is one step.              *)
(***************************************************************************)

\* The ids Datastore allocates to QueryTemplate entities, and the highest
\* version the model lets a template reach.
MaxTemplates == 3
MaxVersion == 2

\* Category ids, as sequences of words and underscores.
CategoryIds == { <<"sales">>, <<"ad", "_", "hoc">> }

\* The name a template is given.
TemplateNames == {"daily"}

\* QueryTemplateCreate: what a caller passes to create or update a template.
QueryTemplateCreate ==
  [name : TemplateNames, category : CategoryIds]

\* The query_id strings of the callers: the ids and a string that is no id.
QueryIds == {ToString(n) : n \in 1..MaxTemplates} \cup {"latest"}

\* int(query_id): the number the string spells, or ValueError.
int(query_id) ==
  LET spelt == {n \in 0..(MaxTemplates + 1) : ToString(n) = query_id}
  IN IF spelt = {} THEN [ok |-> FALSE, value |-> 0]
     ELSE [ok |-> TRUE, value |-> CHOOSE n \in spelt : TRUE]

\* client.put and client.delete on one kind, client.get being kind[key].
put(kind, key, entity) ==
  [k \in DOMAIN kind \cup {key} |-> IF k = key THEN entity ELSE kind[k]]
delete(kind, key) == [k \in DOMAIN kind \ {key} |-> kind[k]]

\* str.title() on a word.
Capitalized ==
  [w \in {"sales", "ad", "hoc"} |->
     CASE w = "sales" -> "Sales" [] w = "ad" -> "Ad" [] w = "hoc" -> "Hoc"]

\* category_id.replace("_", " ").title()
display_name_of(category_id) ==
  [i \in 1..Len(category_id) |->
     IF category_id[i] = "_" THEN " " ELSE Capitalized[category_id[i]]]

\* create_category: a Category entity with no query.
create_category(kind, category) ==
  put(kind, category.id,
      [display_name |-> category.display_name,
       description |-> category.description,
       query_count |-> 0])

\* _increment_category_count
increment_category_count(kind, category_id) ==
  LET entity == IF category_id \in DOMAIN kind THEN kind[category_id]
                ELSE [display_name |-> display_name_of(category_id),
                      description |-> <<>>,
                      query_count |-> 0]
  IN put(kind, category_id,
         [entity EXCEPT !.query_count = entity.query_count + 1])

\* Mutant of decrement_category_count: the count is left as it is.
decrement_category_count_skipped(kind, category_id) == kind

\* _decrement_category_count
decrement_category_count(kind, category_id) ==
  IF category_id \in DOMAIN kind
  THEN LET entity == kind[category_id]
           less == entity.query_count - 1
       IN put(kind, category_id,
              [entity EXCEPT !.query_count = IF less > 0 THEN less ELSE 0])
  ELSE kind

\* _entity_to_query_template
entity_to_query_template(id, entity) ==
  [id |-> ToString(id), name |-> entity.name, category |-> entity.category,
   created_by |-> entity.created_by, version |-> entity.version]

\* _entity_to_category
entity_to_category(name, entity) ==
  [id |-> name, display_name |-> entity.display_name,
   description |-> entity.description, query_count |-> entity.query_count]

\* create_query_template: Datastore allocates an id that no stored template
\* has.
CreateQueryTemplate(template) ==
  /\ \E id \in (1..MaxTemplates) \ DOMAIN query_templates :
       LET entity == [name |-> template.name, category |-> template.category,
                      created_by |-> "user", version |-> 1]
       IN /\ query_templates' = put(query_templates, id, entity)
          /\ store_result' = [call |-> "create_query_template",
                              value |-> entity_to_query_template(id, entity)]
  /\ categories' = increment_category_count(categories, template.category)
  /\ UNCHANGED <<batchVars, classifyVars, sessionVars, pullVars>>

\* update_query_template
UpdateQueryTemplate(query_id, template) ==
  /\ LET key == int(query_id) IN
     IF ~key.ok
     THEN /\ store_result' = [call |-> "update_query_template", value |-> "ValueError"]
          /\ UNCHANGED <<query_templates, categories>>
     ELSE IF key.value \notin DOMAIN query_templates
     THEN /\ store_result' = [call |-> "update_query_template", value |-> "None"]
          /\ UNCHANGED <<query_templates, categories>>
     ELSE LET old == query_templates[key.value]
              old_category == old.category
              new_category == template.category
              entity == [old EXCEPT !.name = template.name,
                                    !.category = new_category,
                                    !.version = old.version + 1]
          IN /\ old.version < MaxVersion
             /\ query_templates' = put(query_templates, key.value, entity)
             /\ categories' =
                  IF old_category # new_category
                  THEN increment_category_count(
                         decrement_category_count(categories, old_category),
                         new_category)
                  ELSE categories
             /\ store_result' = [call |-> "update_query_template",
                                 value |-> entity_to_query_template(key.value, entity)]
  /\ UNCHANGED <<batchVars, classifyVars, sessionVars, pullVars>>

\* delete_query_template
DeleteQueryTemplate(query_id) ==
  /\ LET key == int(query_id) IN
     IF ~key.ok
     THEN /\ store_result' = [call |-> "delete_query_template", value |-> "ValueError"]
          /\ UNCHANGED <<query_templates, categories>>
     ELSE IF key.value \notin DOMAIN query_templates
     THEN /\ store_result' = [call |-> "delete_query_template", value |-> "False"]
          /\ UNCHANGED <<query_templates, categories>>
     ELSE LET category == query_templates[key.value].category
          IN /\ query_templates' = delete(query_templates, key.value)
             /\ categories' = decrement_category_count(categories, category)
             /\ store_result' = [call |-> "delete_query_template", value |-> "True"]
  /\ UNCHANGED <<batchVars, classifyVars, sessionVars, pullVars>>

\* POST /categories: a category that exists is refused, a new one is created.
CreateCategory(category_id) ==
  /\ IF category_id \in DOMAIN categories
     THEN /\ store_result' = [call |-> "create_category", value |-> "400"]
          /\ UNCHANGED categories
     ELSE LET category == [id |-> category_id,
                           display_name |-> <<"Reports">>,
                           description |-> <<>>]
          IN /\ categories' = create_category(categories, category)
             /\ store_result' =
                  [call |-> "create_category",
                   value |-> entity_to_category(category_id, categories'[category_id])]
  /\ UNCHANGED query_templates
  /\ UNCHANGED <<batchVars, classifyVars, sessionVars, pullVars>>

InitStore ==
  /\ BatchIdle /\ ClassifyIdle /\ SessionIdle /\ PullIdle
  /\ StoreIdle

NextStore ==
  \/ \E template \in QueryTemplateCreate : CreateQueryTemplate(template)
  \/ \E query_id \in QueryIds, template \in QueryTemplateCreate :
       UpdateQueryTemplate(query_id, template)
  \/ \E query_id \in QueryIds : DeleteQueryTemplate(query_id)
  \/ \E category_id \in CategoryIds : CreateCategory(category_id)

SpecStore == InitStore /\ [][NextStore]_vars

(***************************************************************************)
(* C28                                                                     *)
(***************************************************************************)

\* The stored query templates of category `category_id`.
TemplatesOf(category_id) ==
  {id \in DOMAIN query_templates : query_templates[id].category = category_id}

\* C28: after any sequence of create_query_template, update_query_template
\* and delete_query_template calls, each run to its end, the query_count of
\* every Category entity is the number of stored QueryTemplate entities of
\* that category, and it is never negative.
C28_QueryCountIsNumberOfTemplates ==
  \A category_id \in DOMAIN categories :
    /\ categories[category_id].query_count = Cardinality(TemplatesOf(category_id))
    /\ categories[category_id].query_count >= 0

\* After an update_query_template call one category holds no template and
\* the category that _increment_category_count created holds two.
C28_Witness ==
  /\ store_result # <<>>
  /\ store_result.call = "update_query_template"
  /\ \E from, to \in DOMAIN categories :
       /\ categories[from].query_count = 0
       /\ categories[to].query_count = 2
       /\ categories[to].display_name = <<"Ad", " ", "Hoc">>

====
